---- MODULE Spec2Model ----
(***************************************************************************)
(* Question selection and anti-repetition engine of Realm Quiz Wars         *)
(* (src/src/server/core/question-database.ts, class QuestionDatabase).      *)
(*                                                                          *)
(* Strings that the code inspects character by character (realm names,      *)
(* topics, session identifiers) are sequences of one-character strings.     *)
(* Question texts and option texts are only ever compared for equality, so  *)
(* each distinct text of the source is a distinct number.  Array indices    *)
(* (correct, i, j) are 0-based as in the source; sequences are 1-based.     *)
(***************************************************************************)
EXTENDS Integers, Sequences, FiniteSets, TLC

VARIABLES
    questionBank,           \* Map<string, Question[]>            (line 7)
    recentlyUsedQuestions,  \* Map<string, Set<string>>, each Set in insertion order (line 8)
    now,                    \* Date.now(), in ticks; one tick per request
    last,                   \* the latest request and what it returned
    prev,                   \* the request before it
    probe,                  \* argument and result of a helper called on its own
    inflight,               \* the requests in flight (index.ts:102, 198)
    redis                   \* the redis store: player records, realm leaderboard

vars == <<questionBank, recentlyUsedQuestions, now, last, prev, probe, inflight, redis>>

----------------------------------------------------------------------------
(* Bounds of the model *)

MaxCalls == 2        \* requests per behaviour
MaxStream == 1       \* Math.random() streams 0..MaxStream
RandDen == 8         \* Math.random() returns k/RandDen, k in 0..RandDen-1
LargeEasy == 26      \* tier sizes of the large realm
LargeMedium == 26
LargeHard == 12

(* Program constants *)

questionCooldownPeriod == 10
ResetFloor == 6
PruneFactor == 6
KeepFactor == 3

----------------------------------------------------------------------------
(* JavaScript built-ins used by the code *)

Min(a, b) == IF a <= b THEN a ELSE b
Max(a, b) == IF a >= b THEN a ELSE b

\* A number that may reach 2^31 is kept as its 16-bit halves [hi, lo]: its
\* value is hi * 65536 + lo
Wide(n) == [hi |-> n \div 65536, lo |-> n % 65536]
WideMod(w, m) == ((w.hi % m) * (65536 % m) + w.lo) % m

\* the halves of a signed 32-bit integer: n = HiOf(n) * 65536 + LoOf(n)
LoOf(n) == n % 65536
HiOf(n) == (n - (n % 65536)) \div 65536

\* ToInt32 of hi * 65536 + lo, for lo in 0..65535
Int32(hi, lo) == (((hi + 32768) % 65536) - 32768) * 65536 + lo

\* Math.abs of a signed 32-bit integer; Math.abs(-2^31) is 2^31
MathAbs(a) ==
    IF a >= 0 THEN Wide(a)
    ELSE IF LoOf(a) = 0 THEN [hi |-> -HiOf(a), lo |-> 0]
    ELSE [hi |-> -HiOf(a) - 1, lo |-> 65536 - LoOf(a)]

\* Array.prototype.slice(start, end): negative arguments count from the end
JsSlice(arr, start, end) ==
    LET len == Len(arr)
        s == IF start < 0 THEN Max(len + start, 0) ELSE Min(start, len)
        e == IF end < 0 THEN Max(len + end, 0) ELSE Min(end, len)
    IN  IF s >= e THEN << >> ELSE SubSeq(arr, s + 1, e)

\* Array.prototype.includes
Includes(arr, x) == \E i \in 1..Len(arr) : arr[i] = x

\* (mutation) the position counted from 1
IndexOf_OneBased(arr, x) ==
    IF Includes(arr, x)
    THEN CHOOSE i \in 1..Len(arr) : arr[i] = x /\ \A j \in 1..(i - 1) : arr[j] # x
    ELSE -1

\* Array.prototype.indexOf: first position (0-based) or -1
IndexOf(arr, x) ==
    IF Includes(arr, x)
    THEN (CHOOSE i \in 1..Len(arr) : arr[i] = x /\ \A j \in 1..(i - 1) : arr[j] # x) - 1
    ELSE -1

\* Array.prototype.filter
Filter(arr, Test(_)) == SelectSeq(arr, Test)

\* (mutation) a[i] = a[j] without the exchange
Swap_Overwrite(arr, i, j) == [arr EXCEPT ![i + 1] = arr[j + 1]]

\* [a[i], a[j]] = [a[j], a[i]]
Swap(arr, i, j) == [arr EXCEPT ![i + 1] = arr[j + 1], ![j + 1] = arr[i + 1]]

Upper == <<"A","B","C","D","E","F","G","H","I","J","K","L","M",
           "N","O","P","Q","R","S","T","U","V","W","X","Y","Z">>
Lower == <<"a","b","c","d","e","f","g","h","i","j","k","l","m",
           "n","o","p","q","r","s","t","u","v","w","x","y","z">>

ToLowerChar(c) ==
    IF \E i \in 1..26 : Upper[i] = c
    THEN Lower[CHOOSE i \in 1..26 : Upper[i] = c]
    ELSE c

\* String.prototype.toLowerCase
toLowerCase(str) == [i \in 1..Len(str) |-> ToLowerChar(str[i])]

\* (mutation) Math.floor(count * 0.4)
Ceil04_Floor(count) == (2 * count) \div 5

\* Math.ceil(count * 0.4); the double product rounds to the exact value for
\* every count in 0..200, so this is the exact ceiling of 2*count/5
Ceil04(count) == (2 * count + 4) \div 5

\* The k-th value of Math.random() in stream s, as a numerator over RandDen
MathRandom(s, k) == (s + 3 * k * (s + 1)) % RandDen

\* Math.floor(random() * n)
FloorRandom(r, n) == (r * n) \div RandDen

\* Map.get(key) || default, Map.set, Map.delete
MapGet(map, key, default) == IF key \in DOMAIN map THEN map[key] ELSE default
MapSet(map, key, val) == [k \in (DOMAIN map) \cup {key} |-> IF k = key THEN val ELSE map[k]]
MapDelete(map, key) == [k \in (DOMAIN map) \ {key} |-> map[k]]
EmptyMap == [k \in {} |-> << >>]

\* Set.add for the elements lo..hi of ids in turn, keeping insertion order.
\* (Loops over an array are unrolled by halves, and the test on the length
\* of the accumulated array makes its value available before the next
\* iteration starts: the iterations run in the order of the source.)
RECURSIVE SetAddRange(_, _, _, _)
SetAddRange(set, ids, lo, hi) ==
    IF lo > hi \/ Len(set) < 0 THEN set
    ELSE IF lo = hi
    THEN IF Includes(set, ids[lo]) THEN set ELSE Append(set, ids[lo])
    ELSE SetAddRange(SetAddRange(set, ids, lo, (lo + hi) \div 2), ids, (lo + hi) \div 2 + 1, hi)

SetAddAll_Replace(set, ids) == ids     \* (mutation: the set read before is written over)
SetAddAll(set, ids) == SetAddRange(set, ids, 1, Len(ids))

----------------------------------------------------------------------------
(* Question records and the question bank *)

Q(text, opts, c, d, t, src) ==
    [question |-> text, options |-> opts, correct |-> c,
     difficulty |-> d, topic |-> t, source |-> src]

T_Gaming == <<"G", "a", "m", "i", "n", "g">>
T_Science == <<"S", "c", "i", "e", "n", "c", "e">>
T_Technology == <<"T", "e", "c", "h", "n", "o", "l", "o", "g", "y">>
T_Movies == <<"M", "o", "v", "i", "e", "s">>
T_RedditCulture == <<"R", "e", "d", "d", "i", "t", " ", "C", "u", "l", "t", "u", "r", "e">>
T_Geography == <<"G", "e", "o", "g", "r", "a", "p", "h", "y">>
T_Reddit == <<"R", "e", "d", "d", "i", "t">>
T_Programming == <<"P", "r", "o", "g", "r", "a", "m", "m", "i", "n", "g">>
T_History == <<"H", "i", "s", "t", "o", "r", "y">>
T_Sports == <<"S", "p", "o", "r", "t", "s">>

\* gaming: COMP.gaming ++ generateAdditionalGamingQuestions ++ generateDynamicGamingQuestions (question-database.ts:240), 22 questions
GamingQuestions ==
    << Q(1, <<1, 2, 3, 4>>, 1, "easy", T_Gaming, "fallback"),
       Q(2, <<5, 6, 7, 8>>, 1, "easy", T_Gaming, "fallback"),
       Q(3, <<9, 10, 11, 12>>, 3, "easy", T_Gaming, "fallback"),
       Q(4, <<13, 14, 15, 16>>, 1, "easy", T_Gaming, "fallback"),
       Q(5, <<17, 18, 19, 20>>, 2, "easy", T_Gaming, "fallback"),
       Q(6, <<21, 22, 23, 24>>, 3, "easy", T_Gaming, "fallback"),
       Q(7, <<25, 26, 27, 28>>, 1, "easy", T_Gaming, "fallback"),
       Q(8, <<29, 30, 31, 32>>, 1, "easy", T_Gaming, "fallback"),
       Q(9, <<2, 3, 1, 4>>, 2, "easy", T_Gaming, "fallback"),
       Q(10, <<33, 34, 35, 36>>, 2, "medium", T_Gaming, "fallback"),
       Q(11, <<37, 38, 39, 40>>, 1, "medium", T_Gaming, "fallback"),
       Q(12, <<41, 42, 43, 44>>, 1, "medium", T_Gaming, "fallback"),
       Q(13, <<45, 8, 46, 47>>, 0, "medium", T_Gaming, "fallback"),
       Q(14, <<48, 49, 50, 51>>, 1, "medium", T_Gaming, "fallback"),
       Q(15, <<52, 53, 54, 55>>, 1, "easy", T_Gaming, "dynamic"),
       Q(16, <<56, 57, 58, 59>>, 0, "medium", T_Gaming, "dynamic"),
       Q(17, <<60, 61, 62, 63>>, 1, "hard", T_Gaming, "dynamic"),
       Q(6, <<21, 22, 24, 23>>, 2, "medium", T_Gaming, "dynamic"),
       Q(18, <<3, 64, 65, 66>>, 3, "medium", T_Gaming, "dynamic"),
       Q(19, <<67, 68, 69, 70>>, 1, "medium", T_Gaming, "dynamic"),
       Q(20, <<71, 37, 72, 40>>, 0, "hard", T_Gaming, "dynamic"),
       Q(21, <<73, 74, 75, 76>>, 1, "hard", T_Gaming, "dynamic") >>

\* science: COMP.science ++ generateAdditionalScienceQuestions ++ generateDynamicScienceQuestions (question-database.ts:241), 20 questions
ScienceQuestions ==
    << Q(22, <<77, 78, 79, 80>>, 0, "easy", T_Science, "fallback"),
       Q(23, <<81, 82, 83, 84>>, 0, "easy", T_Science, "fallback"),
       Q(24, <<85, 86, 87, 88>>, 2, "easy", T_Science, "fallback"),
       Q(25, <<89, 90, 91, 92>>, 2, "easy", T_Science, "fallback"),
       Q(26, <<93, 94, 95, 96>>, 3, "easy", T_Science, "fallback"),
       Q(27, <<97, 98, 99, 100>>, 2, "easy", T_Science, "fallback"),
       Q(28, <<101, 102, 103, 104>>, 2, "easy", T_Science, "fallback"),
       Q(29, <<105, 106, 107, 108>>, 2, "easy", T_Science, "fallback"),
       Q(30, <<30, 109, 110, 111>>, 2, "easy", T_Science, "fallback"),
       Q(31, <<107, 112, 113, 114>>, 1, "medium", T_Science, "fallback"),
       Q(32, <<115, 116, 117, 118>>, 2, "medium", T_Science, "fallback"),
       Q(33, <<112, 119, 113, 120>>, 1, "medium", T_Science, "fallback"),
       Q(34, <<121, 122, 123, 41>>, 1, "medium", T_Science, "fallback"),
       Q(35, <<89, 90, 92, 124>>, 2, "medium", T_Science, "fallback"),
       Q(36, <<125, 126, 127, 128>>, 1, "easy", T_Science, "dynamic"),
       Q(37, <<129, 130, 131, 132>>, 1, "medium", T_Science, "dynamic"),
       Q(38, <<133, 134, 135, 136>>, 0, "hard", T_Science, "dynamic"),
       Q(28, <<101, 102, 103, 104>>, 2, "medium", T_Science, "dynamic"),
       Q(39, <<81, 82, 83, 137>>, 0, "medium", T_Science, "dynamic"),
       Q(26, <<94, 138, 139, 140>>, 0, "hard", T_Science, "dynamic") >>

\* technology: COMP.technology ++ generateAdditionalTechnologyQuestions ++ generateDynamicTechnologyQuestions (question-database.ts:242), 16 questions
TechnologyQuestions ==
    << Q(40, <<141, 142, 143, 144>>, 0, "easy", T_Technology, "fallback"),
       Q(41, <<145, 146, 147, 3>>, 2, "easy", T_Technology, "fallback"),
       Q(42, <<148, 149, 150, 151>>, 0, "easy", T_Technology, "fallback"),
       Q(43, <<152, 153, 154, 155>>, 1, "easy", T_Technology, "fallback"),
       Q(44, <<156, 157, 158, 159>>, 1, "easy", T_Technology, "fallback"),
       Q(45, <<160, 161, 162, 163>>, 0, "medium", T_Technology, "fallback"),
       Q(46, <<3, 145, 164, 165>>, 2, "medium", T_Technology, "fallback"),
       Q(47, <<166, 167, 168, 169>>, 0, "medium", T_Technology, "fallback"),
       Q(48, <<170, 171, 172, 173>>, 1, "hard", T_Technology, "fallback"),
       Q(49, <<174, 175, 176, 177>>, 2, "hard", T_Technology, "fallback"),
       Q(50, <<178, 179, 180, 181>>, 0, "easy", T_Technology, "dynamic"),
       Q(51, <<145, 182, 3, 183>>, 1, "medium", T_Technology, "dynamic"),
       Q(52, <<184, 185, 186, 187>>, 1, "hard", T_Technology, "dynamic"),
       Q(44, <<157, 156, 158, 159>>, 0, "easy", T_Technology, "dynamic"),
       Q(53, <<153, 152, 154, 155>>, 1, "medium", T_Technology, "dynamic"),
       Q(54, <<188, 189, 190, 191>>, 0, "easy", T_Technology, "dynamic") >>

\* movies: getMoviesQuestions ++ generateDynamicMoviesQuestions (question-database.ts:245), 9 questions
MoviesQuestions ==
    << Q(55, <<192, 193, 194, 195>>, 1, "easy", T_Movies, "fallback"),
       Q(56, <<196, 197, 198, 199>>, 2, "easy", T_Movies, "fallback"),
       Q(57, <<200, 201, 202, 203>>, 1, "easy", T_Movies, "fallback"),
       Q(58, <<204, 205, 206, 207>>, 1, "easy", T_Movies, "fallback"),
       Q(59, <<208, 209, 210, 211>>, 2, "easy", T_Movies, "fallback"),
       Q(60, <<212, 213, 214, 215>>, 1, "easy", T_Movies, "dynamic"),
       Q(61, <<193, 216, 194, 217>>, 1, "medium", T_Movies, "dynamic"),
       Q(62, <<218, 219, 220, 221>>, 0, "hard", T_Movies, "dynamic"),
       Q(63, <<222, 197, 223, 224>>, 1, "hard", T_Movies, "dynamic") >>

\* askreddit: getAskRedditQuestions ++ generateDynamicRedditQuestions (question-database.ts:246), 8 questions
AskRedditQuestions ==
    << Q(64, <<225, 226, 227, 96>>, 3, "easy", T_RedditCulture, "fallback"),
       Q(65, <<228, 229, 230, 231>>, 0, "easy", T_RedditCulture, "fallback"),
       Q(66, <<232, 233, 234, 96>>, 3, "easy", T_RedditCulture, "fallback"),
       Q(67, <<235, 236, 237, 238>>, 0, "easy", T_RedditCulture, "fallback"),
       Q(68, <<239, 240, 241, 242>>, 0, "easy", T_RedditCulture, "fallback"),
       Q(69, <<243, 244, 245, 246>>, 0, "easy", T_RedditCulture, "dynamic"),
       Q(70, <<247, 248, 249, 250>>, 0, "medium", T_RedditCulture, "dynamic"),
       Q(71, <<251, 252, 253, 96>>, 3, "easy", T_RedditCulture, "dynamic") >>

\* worldnews: getWorldNewsQuestions ++ generateDynamicWorldNewsQuestions (question-database.ts:247), 8 questions
WorldNewsQuestions ==
    << Q(72, <<254, 255, 256, 257>>, 2, "easy", T_Geography, "fallback"),
       Q(73, <<258, 259, 260, 261>>, 1, "easy", T_Geography, "fallback"),
       Q(74, <<262, 263, 264, 265>>, 1, "easy", T_Geography, "fallback"),
       Q(75, <<266, 267, 268, 269>>, 2, "easy", T_Geography, "fallback"),
       Q(76, <<270, 271, 272, 273>>, 1, "easy", T_Geography, "fallback"),
       Q(77, <<274, 260, 259, 275>>, 0, "medium", T_Geography, "dynamic"),
       Q(78, <<276, 277, 278, 279>>, 1, "medium", T_Geography, "dynamic"),
       Q(79, <<274, 280, 281, 96>>, 3, "medium", T_Geography, "dynamic") >>

\* general: getGeneralRedditQuestions ++ generateDynamicGeneralQuestions (question-database.ts:248), 8 questions
GeneralQuestions ==
    << Q(80, <<282, 283, 284, 285>>, 0, "easy", T_Reddit, "fallback"),
       Q(81, <<286, 287, 288, 96>>, 3, "easy", T_Reddit, "fallback"),
       Q(82, <<289, 290, 291, 292>>, 1, "easy", T_Reddit, "fallback"),
       Q(83, <<293, 294, 295, 296>>, 0, "easy", T_Reddit, "fallback"),
       Q(84, <<297, 298, 299, 300>>, 0, "easy", T_Reddit, "fallback"),
       Q(85, <<301, 302, 303, 304>>, 0, "easy", T_Reddit, "dynamic"),
       Q(86, <<305, 306, 307, 308>>, 1, "easy", T_Reddit, "dynamic"),
       Q(87, <<309, 310, 311, 312>>, 0, "easy", T_Reddit, "dynamic") >>

\* programming: getProgrammingQuestions ++ generateDynamicProgrammingQuestions (question-database.ts:249), 8 questions
ProgrammingQuestions ==
    << Q(88, <<152, 153, 155, 154>>, 1, "easy", T_Programming, "fallback"),
       Q(89, <<313, 314, 315, 316>>, 0, "easy", T_Programming, "fallback"),
       Q(90, <<317, 318, 319, 320>>, 2, "easy", T_Programming, "fallback"),
       Q(91, <<321, 322, 323, 324>>, 1, "easy", T_Programming, "fallback"),
       Q(92, <<3, 147, 325, 145>>, 2, "easy", T_Programming, "fallback"),
       Q(93, <<326, 327, 328, 329>>, 0, "medium", T_Programming, "dynamic"),
       Q(94, <<170, 330, 172, 171>>, 2, "hard", T_Programming, "dynamic"),
       Q(95, <<331, 332, 333, 334>>, 3, "medium", T_Programming, "dynamic") >>

\* history: getHistoryQuestions ++ generateDynamicHistoryQuestions (question-database.ts:250), 8 questions
HistoryQuestions ==
    << Q(96, <<335, 336, 337, 338>>, 1, "easy", T_History, "fallback"),
       Q(97, <<339, 340, 341, 342>>, 1, "easy", T_History, "fallback"),
       Q(98, <<343, 344, 345, 346>>, 1, "easy", T_History, "fallback"),
       Q(99, <<347, 348, 349, 350>>, 2, "easy", T_History, "fallback"),
       Q(100, <<351, 352, 353, 354>>, 1, "easy", T_History, "fallback"),
       Q(101, <<50, 355, 356, 357>>, 1, "medium", T_History, "dynamic"),
       Q(102, <<358, 359, 360, 361>>, 1, "easy", T_History, "dynamic"),
       Q(103, <<362, 363, 364, 365>>, 2, "medium", T_History, "dynamic") >>

\* sports: getSportsQuestions ++ generateDynamicSportsQuestions (question-database.ts:251), 8 questions
SportsQuestions ==
    << Q(104, <<107, 108, 112, 119>>, 1, "easy", T_Sports, "fallback"),
       Q(105, <<366, 367, 368, 369>>, 2, "easy", T_Sports, "fallback"),
       Q(106, <<370, 371, 372, 373>>, 2, "easy", T_Sports, "fallback"),
       Q(107, <<374, 367, 375, 376>>, 1, "easy", T_Sports, "fallback"),
       Q(108, <<377, 378, 379, 380>>, 2, "easy", T_Sports, "fallback"),
       Q(109, <<106, 112, 119, 113>>, 1, "easy", T_Sports, "dynamic"),
       Q(110, <<381, 382, 383, 384>>, 2, "medium", T_Sports, "dynamic"),
       Q(111, <<108, 112, 119, 113>>, 1, "easy", T_Sports, "dynamic") >>

\* FALLBACK: getBasicFallbackQuestions (question-database.ts:265), 6 questions
getBasicFallbackQuestions ==
    << Q(80, <<282, 283, 284, 285>>, 0, "easy", T_Reddit, "fallback"),
       Q(81, <<286, 287, 288, 96>>, 3, "easy", T_Reddit, "fallback"),
       Q(82, <<289, 290, 291, 292>>, 1, "easy", T_Reddit, "fallback"),
       Q(83, <<293, 294, 295, 296>>, 0, "easy", T_Reddit, "fallback"),
       Q(84, <<297, 298, 299, 300>>, 0, "easy", T_Reddit, "fallback"),
       Q(67, <<235, 236, 237, 238>>, 0, "easy", T_Reddit, "fallback") >>

S_gaming == <<"g","a","m","i","n","g">>
S_science == <<"s","c","i","e","n","c","e">>
S_technology == <<"t","e","c","h","n","o","l","o","g","y">>
S_movies == <<"m","o","v","i","e","s">>
S_askreddit == <<"a","s","k","r","e","d","d","i","t">>
S_worldnews == <<"w","o","r","l","d","n","e","w","s">>
S_general == <<"g","e","n","e","r","a","l">>
S_programming == <<"p","r","o","g","r","a","m","m","i","n","g">>
S_history == <<"h","i","s","t","o","r","y">>
S_sports == <<"s","p","o","r","t","s">>

\* initializeQuestionBank: the bank the shipped program constructs
ShippedBank ==
    [k \in {S_gaming, S_science, S_technology, S_movies, S_askreddit, S_worldnews,
            S_general, S_programming, S_history, S_sports} |->
        CASE k = S_gaming -> GamingQuestions
          [] k = S_science -> ScienceQuestions
          [] k = S_technology -> TechnologyQuestions
          [] k = S_movies -> MoviesQuestions
          [] k = S_askreddit -> AskRedditQuestions
          [] k = S_worldnews -> WorldNewsQuestions
          [] k = S_general -> GeneralQuestions
          [] k = S_programming -> ProgrammingQuestions
          [] k = S_history -> HistoryQuestions
          [] k = S_sports -> SportsQuestions]

\* Corpora that the shipped data does not contain: the scenarios of the
\* specification (9/9/9 pool, 4 candidates, empty realm, no "general" realm)
\* and a realm large enough for the cooldown set to be pruned
TierOf(i, nE, nM) == IF i <= nE THEN "easy" ELSE IF i <= nE + nM THEN "medium" ELSE "hard"

TierCorpus(base, nE, nM, nH, t) ==
    [i \in 1..(nE + nM + nH) |->
        Q(base + i,
          <<10 * (base + i) + 1, 10 * (base + i) + 2, 10 * (base + i) + 3, 10 * (base + i) + 4>>,
          i % 4, TierOf(i, nE, nM), t, "fallback")]

S_void == <<"v","o","i","d">>

ScenarioBank ==
    [k \in {S_gaming, S_movies, S_void} |->
        CASE k = S_gaming -> TierCorpus(1000, 9, 9, 9, T_Gaming)
          [] k = S_movies -> TierCorpus(2000, 2, 1, 1, T_Movies)
          [] k = S_void -> << >>]

LargeBank ==
    [k \in {S_gaming} |-> TierCorpus(3000, LargeEasy, LargeMedium, LargeHard, T_Gaming)]

Banks == {ShippedBank, ScenarioBank, LargeBank}

----------------------------------------------------------------------------
(* QuestionDatabase: private helpers *)

\* normalizeRealmName: realm.replace(/^r\//, '').toLowerCase()
normalizeRealmName(realm) ==
    toLowerCase(IF Len(realm) >= 2 /\ realm[1] = "r" /\ realm[2] = "/"
                THEN SubSeq(realm, 3, Len(realm))
                ELSE realm)

\* getQuestionId: `${question.question}-${question.correct}`; correct is a
\* non-negative number, so the string determines both parts
getQuestionId_ByPosition(question) == <<question.question, question.options[1]>>     \* (mutation: the id depends on the order of the options)
getQuestionId(question) == <<question.question, question.correct>>

QuestionIds(questions) == [i \in 1..Len(questions) |-> getQuestionId(questions[i])]

\* getCurrentRealm
getCurrentRealm(questions) ==
    IF Len(questions) > 0 /\ questions[1].topic # << >>
    THEN toLowerCase(questions[1].topic)
    ELSE S_general

\* lines 231-234: the iterations i = hi down to lo of the Fisher-Yates loop;
\* iteration i takes value k + (length - 1 - i) of Math.random() stream s
RECURSIVE FisherYates(_, _, _, _, _)
FisherYates(shuffled, lo, hi, s, k) ==
    IF lo > hi \/ Len(shuffled) < 0 THEN shuffled
    ELSE IF lo = hi
    THEN Swap(shuffled, lo,
              FloorRandom(MathRandom(s, k + Len(shuffled) - 1 - lo), lo + 1))
    ELSE FisherYates(FisherYates(shuffled, (lo + hi) \div 2 + 1, hi, s, k),
                     lo, (lo + hi) \div 2, s, k)

\* shuffleArray
shuffleArray(array, s, k) == FisherYates(array, 1, Len(array) - 1, s, k)

\* number of Math.random() values one shuffleArray call consumes
Draws(array) == Max(Len(array) - 1, 0)

\* (mutation) the lookup without the "general" step
ResolveQuestions_NoGeneral(bank, realm) ==
    IF MapGet(bank, normalizeRealmName(realm), << >>) # << >>
    THEN MapGet(bank, normalizeRealmName(realm), << >>)
    ELSE getBasicFallbackQuestions

\* the lookup chain of getRandomQuestions, lines 30-42
ResolveQuestions(bank, realm) ==
    IF MapGet(bank, normalizeRealmName(realm), << >>) # << >>
    THEN MapGet(bank, normalizeRealmName(realm), << >>)
    ELSE IF MapGet(bank, S_general, << >>) # << >>
    THEN MapGet(bank, S_general, << >>)
    ELSE getBasicFallbackQuestions

\* (mutation) no candidate is filtered out
AvailableQuestions_NoFilter(questions, recentlyUsed) == questions

\* line 108: the candidates whose id is not in the realm's Set
AvailableQuestions(questions, recentlyUsed) ==
    Filter(questions, LAMBDA q : ~Includes(recentlyUsed, getQuestionId(q)))

\* (mutation) the cooldown is never reset
TooFew_Never(availableQuestions) == FALSE

\* line 111
TooFew(availableQuestions) == Len(availableQuestions) < ResetFloor

\* lines 111-117: the questions returned and the map left, given the unused
\* candidates
ResetOrFilter(questions, realm, map, availableQuestions) ==
    IF TooFew(availableQuestions)
    THEN [questions |-> questions, map |-> MapSet(map, realm, << >>), reset |-> TRUE]
    ELSE [questions |-> availableQuestions, map |-> map, reset |-> FALSE]

\* filterRecentlyUsedQuestions: the questions it returns, the map it leaves
filterRecentlyUsedQuestions(questions, realm, map) ==
    ResetOrFilter(questions, realm, map,
                  AvailableQuestions(questions, MapGet(map, realm, << >>)))

\* (mutation) the Set is never cut down
PruneRecentlyUsed_Never(recentlyUsed) == recentlyUsed

\* (mutation) the oldest entries are kept
PruneRecentlyUsed_Oldest(recentlyUsed) ==
    IF Len(recentlyUsed) > questionCooldownPeriod * PruneFactor
    THEN JsSlice(recentlyUsed, 0, questionCooldownPeriod * KeepFactor)
    ELSE recentlyUsed

\* lines 136-139: what the Set is replaced by when it has grown too large
PruneRecentlyUsed(recentlyUsed) ==
    IF Len(recentlyUsed) > questionCooldownPeriod * PruneFactor
    THEN JsSlice(recentlyUsed, -(questionCooldownPeriod * KeepFactor), Len(recentlyUsed))
    ELSE recentlyUsed

\* lines 136-140: the map left, given the Set after the insertions
StoreRecentlyUsed(realm, map, recentlyUsed) ==
    [map |-> MapSet(map, realm, PruneRecentlyUsed(recentlyUsed)),
     pruned |-> Len(recentlyUsed) > questionCooldownPeriod * PruneFactor]

\* trackRecentlyUsedQuestions
trackRecentlyUsedQuestions(questions, realm, map) ==
    StoreRecentlyUsed(realm, map,
                      SetAddAll(MapGet(map, realm, << >>), QuestionIds(questions)))

\* lines 70-72
easyCount(count) == Ceil04(count)
mediumCount(count) == Ceil04(count)
hardCount(count) == count - easyCount(count) - mediumCount(count)

\* lines 77-87: one tier's picks
TierPick(tierQuestions, tierCount, s, k) ==
    IF Len(tierQuestions) > 0
    THEN JsSlice(shuffleArray(tierQuestions, s, k), 0, Min(tierCount, Len(tierQuestions)))
    ELSE << >>

\* line 91: the candidates not picked yet
NotSelected(availableQuestions, selectedQuestions) ==
    Filter(availableQuestions, LAMBDA q : ~Includes(selectedQuestions, q))

\* (mutation) the selection returned without the final slice
ReturnSlice_Whole(selectedQuestions, count) == selectedQuestions

\* line 98
ReturnSlice(selectedQuestions, count) == JsSlice(selectedQuestions, 0, count)

\* lines 77-87: the picks of the three tiers, in the order they are pushed
TierPicks(easyQuestions, mediumQuestions, hardQuestions, count, s) ==
    TierPick(easyQuestions, easyCount(count), s, 0)
    \o TierPick(mediumQuestions, mediumCount(count), s, Draws(easyQuestions))
    \o TierPick(hardQuestions, hardCount(count), s,
                Draws(easyQuestions) + Draws(mediumQuestions))

\* (mutation) scarce tiers are not made up for
Backfill_None(availableQuestions, selectedQuestions, count, s, k) == selectedQuestions

\* lines 89-93: the selection after the backfill; k Math.random() values
\* have been consumed before it
Backfill(availableQuestions, selectedQuestions, count, s, k) ==
    IF Len(selectedQuestions) < count
    THEN selectedQuestions
         \o JsSlice(shuffleArray(NotSelected(availableQuestions, selectedQuestions), s, k),
                    0, count - Len(selectedQuestions))
    ELSE selectedQuestions

\* the Math.random() values the backfill consumes
BackfillDraws(availableQuestions, selectedQuestions, count) ==
    IF Len(selectedQuestions) < count
    THEN Draws(NotSelected(availableQuestions, selectedQuestions))
    ELSE 0

\* lines 95-98: what getBalancedQuestionMix returns and leaves behind; f is
\* the outcome of the filtering, t the outcome of the tracking
MixOutcome(realm, f, tiers, selectedQuestions, t, count, draws) ==
    [questions |-> ReturnSlice(selectedQuestions, count),
     tiers |-> tiers,
     map |-> t.map,
     realm |-> realm,
     reset |-> f.reset,
     pruned |-> t.pruned,
     available |-> f.questions,
     selected |-> selectedQuestions,
     draws |-> draws]

\* lines 95-98
TrackAndReturn(realm, f, tiers, selectedQuestions, count, draws) ==
    MixOutcome(realm, f, tiers, selectedQuestions,
               trackRecentlyUsedQuestions(selectedQuestions, realm, f.map), count, draws)

\* lines 89-98; k Math.random() values have been consumed by the tier picks
FillAndReturn(realm, f, tiers, count, s, k) ==
    TrackAndReturn(realm, f, tiers, Backfill(f.questions, tiers, count, s, k), count,
                   k + BackfillDraws(f.questions, tiers, count))

\* lines 74-98
PickAndReturn(realm, f, easyQuestions, mediumQuestions, hardQuestions, count, s) ==
    FillAndReturn(realm, f,
                  TierPicks(easyQuestions, mediumQuestions, hardQuestions, count, s),
                  count, s,
                  Draws(easyQuestions) + Draws(mediumQuestions) + Draws(hardQuestions))

\* lines 64-98
MixAvailable(realm, f, count, s) ==
    PickAndReturn(realm, f,
                  Filter(f.questions, LAMBDA q : q.difficulty = "easy"),
                  Filter(f.questions, LAMBDA q : q.difficulty = "medium"),
                  Filter(f.questions, LAMBDA q : q.difficulty = "hard"),
                  count, s)

\* lines 62-98
MixForRealm(questions, realm, count, map, s) ==
    MixAvailable(realm, filterRecentlyUsedQuestions(questions, realm, map), count, s)

\* getBalancedQuestionMix
getBalancedQuestionMix(questions, count, map, s) ==
    MixForRealm(questions, getCurrentRealm(questions), count, map, s)

\* shuffleQuestionOptions, one question
WithShuffledOptions(question, correctAnswer, shuffledOptions) ==
    [question |-> question.question, options |-> shuffledOptions,
     correct |-> IndexOf(shuffledOptions, correctAnswer),
     difficulty |-> question.difficulty,
     topic |-> question.topic, source |-> question.source,
     originalOrder |-> FALSE]

ShuffleOptions(question, s, k) ==
    WithShuffledOptions(question, question.options[question.correct + 1],
                        shuffleArray(question.options, s, k))

\* the Math.random() values consumed for the questions lo..hi
RECURSIVE OptionDrawsIn(_, _, _)
OptionDrawsIn(questions, lo, hi) ==
    IF lo > hi THEN 0
    ELSE IF lo = hi THEN Draws(questions[lo].options)
    ELSE OptionDrawsIn(questions, lo, (lo + hi) \div 2)
         + OptionDrawsIn(questions, (lo + hi) \div 2 + 1, hi)

OptionDraws(questions) == OptionDrawsIn(questions, 1, Len(questions))

\* questions.map(...) over the questions lo..hi
RECURSIVE MapShuffleOptions(_, _, _, _, _)
MapShuffleOptions(questions, lo, hi, s, k) ==
    IF lo > hi THEN << >>
    ELSE IF lo = hi THEN <<ShuffleOptions(questions[lo], s, k)>>
    ELSE MapShuffleOptions(questions, lo, (lo + hi) \div 2, s, k)
         \o MapShuffleOptions(questions, (lo + hi) \div 2 + 1, hi, s,
                              k + OptionDrawsIn(questions, lo, (lo + hi) \div 2))

\* shuffleQuestionOptions
shuffleQuestionOptions(questions, s, k) ==
    MapShuffleOptions(questions, 1, Len(questions), s, k)

\* charCodeAt for the characters session identifiers are made of
Digits == <<"0","1","2","3","4","5","6","7","8","9">>

CharCode(c) ==
    IF \E i \in 1..26 : Lower[i] = c THEN 96 + (CHOOSE i \in 1..26 : Lower[i] = c)
    ELSE IF \E i \in 1..26 : Upper[i] = c THEN 64 + (CHOOSE i \in 1..26 : Upper[i] = c)
    ELSE IF \E i \in 1..10 : Digits[i] = c THEN 47 + (CHOOSE i \in 1..10 : Digits[i] = c)
    ELSE IF c = "-" THEN 45
    ELSE IF c = "_" THEN 95
    ELSE 32

\* (mutation) hash << 4
ShiftLeft5_By4(hash) == Int32(16 * HiOf(hash) + (16 * LoOf(hash)) \div 65536,
                              (16 * LoOf(hash)) % 65536)

\* line 192, hash << 5: a signed 32-bit integer
ShiftLeft5(hash) == Int32(32 * HiOf(hash) + (32 * LoOf(hash)) \div 65536,
                          (32 * LoOf(hash)) % 65536)

\* ToInt32 of hi * 65536 + lo, for any lo
Int32OfParts(hi, lo) == Int32(hi + HiOf(lo), LoOf(lo))

\* lines 192-193: (shifted - hash) + char, and hash & hash, which converts
\* the sum to a signed 32-bit integer.  The sum is exact in a double (below
\* 2^37 in size), so the halves of the operands are combined and wrapped
SubtractAddWrap(shifted, hash, char) ==
    Int32OfParts(HiOf(shifted) - HiOf(hash), LoOf(shifted) - LoOf(hash) + char)

\* lines 192-193: hash = ((hash << 5) - hash) + char; hash = hash & hash
HashStep(hash, char) == SubtractAddWrap(ShiftLeft5(hash), hash, char)

\* lines 190-194: the loop from character i on.  (The test on the range of
\* hash, a signed 32-bit integer, makes its value available before the next
\* iteration starts.)
RECURSIVE HashLoop(_, _, _)
HashLoop(str, i, hash) ==
    IF i > Len(str) \/ HiOf(hash) < -32768 THEN hash
    ELSE HashLoop(str, i + 1, HashStep(hash, CharCode(str[i])))

\* hashCode
hashCode(str) == MathAbs(HashLoop(str, 1, 0))

\* seededRandom: x = Math.sin(x) * 10000; return x - Math.floor(x).  The sine
\* is not computed: the n-th value is a fixed function of the seed and n, as
\* a numerator over RandDen, which keeps what the callers rely on (the
\* sequence is determined by the seed, each value is in [0, 1))
SeededRandom(seed, n) ==
    (WideMod(seed, RandDen) + 3 * (n + 1) * (WideMod(seed, 5) + 1)) % RandDen

NoSession == << >>

\* lines 171-174: the iterations i = hi down to lo of the seeded pass
RECURSIVE SeededPass(_, _, _, _)
SeededPass(shuffled, lo, hi, seed) ==
    IF lo > hi \/ Len(shuffled) < 0 THEN shuffled
    ELSE IF lo = hi
    THEN Swap(shuffled, lo,
              FloorRandom(SeededRandom(seed, Len(shuffled) - 1 - lo), lo + 1))
    ELSE SeededPass(SeededPass(shuffled, (lo + hi) \div 2 + 1, hi, seed),
                    lo, (lo + hi) \div 2, seed)

\* lines 177-180: the iterations i = lo up to hi of the second pass
RECURSIVE SecondPass(_, _, _, _, _)
SecondPass(shuffled, lo, hi, s, k) ==
    IF lo > hi \/ Len(shuffled) < 0 THEN shuffled
    ELSE IF lo = hi
    THEN Swap(shuffled, lo, FloorRandom(MathRandom(s, k + lo), Len(shuffled)))
    ELSE SecondPass(SecondPass(shuffled, lo, (lo + hi) \div 2, s, k),
                    (lo + hi) \div 2 + 1, hi, s, k)

\* (mutation) the seed is always Date.now()
Seed_Clock(sessionId, clock) == Wide(clock)

\* line 167: sessionId ? this.hashCode(sessionId) : Date.now()
Seed(sessionId, clock) ==
    IF sessionId # NoSession THEN hashCode(sessionId) ELSE Wide(clock)

\* lines 164-174: the copy of the array after the seeded pass
SeededOrder(array, sessionId, clock) ==
    SeededPass(array, 1, Len(array) - 1, Seed(sessionId, clock))

\* line 164: const shuffled = [...array]; both passes write to shuffled only,
\* so this is the array the caller passed, as the call leaves it
ArrayAfterShuffle(array, shuffled) == array

\* advancedShuffle
advancedShuffle(array, sessionId, clock, s, k) ==
    SecondPass(SeededOrder(array, sessionId, clock), 0, Len(array) - 1, s, k)

----------------------------------------------------------------------------
(* QuestionDatabase: public operations *)

\* line 51, given the outcome of shuffleQuestionOptions
OrderAndReturn(realmQuestions, mix, questionsWithShuffledOptions, sessionId, clock, s) ==
    [questions |-> advancedShuffle(questionsWithShuffledOptions, sessionId, clock, s,
                                   mix.draws + OptionDraws(mix.questions)),
     mix |-> mix,
     candidates |-> realmQuestions,
     shuffled |-> questionsWithShuffledOptions]

\* lines 48-51, given the outcome of getBalancedQuestionMix
ShuffleAndReturn(realmQuestions, mix, sessionId, clock, s) ==
    OrderAndReturn(realmQuestions, mix,
                   shuffleQuestionOptions(mix.questions, s, mix.draws),
                   sessionId, clock, s)

\* lines 45-51, given the candidates the realm resolves to
QuestionsFrom(realmQuestions, map, count, sessionId, clock, s) ==
    ShuffleAndReturn(realmQuestions, getBalancedQuestionMix(realmQuestions, count, map, s),
                     sessionId, clock, s)

\* getRandomQuestions: the batch it returns and the cooldown map it leaves
getRandomQuestions(bank, map, realm, count, sessionId, clock, s) ==
    QuestionsFrom(ResolveQuestions(bank, realm), map, count, sessionId, clock, s)

\* (mutation) question.options and question.correct are assigned in place
StoredAfterShuffle_InPlace(question, shuffledQuestion) ==
    [question EXCEPT !.options = shuffledQuestion.options,
                     !.correct = shuffledQuestion.correct]

\* lines 1162-1176: the options are copied before they are shuffled and the
\* result is a new object ({...question, options, correct, originalOrder});
\* this is the question object of the bank as the call leaves it
StoredAfterShuffle(question, shuffledQuestion) == question

\* the array a realm's questions were read from, as getRandomQuestions leaves
\* it: line 45 hands a copy of the array to getBalancedQuestionMix, filter,
\* shuffleArray and advancedShuffle return new arrays, and the question
\* objects served are the ones shuffleQuestionOptions was given
CorpusAfter(corpus, served, shuffled) ==
    [j \in 1..Len(corpus) |->
        IF Includes(served, corpus[j])
        THEN StoredAfterShuffle(corpus[j], shuffled[IndexOf(served, corpus[j]) + 1])
        ELSE corpus[j]]

\* lines 31-42: the key of the bank the candidates were read from, if any
\* (the built-in questions are created by the call)
StoredKey(bank, realm) ==
    IF MapGet(bank, normalizeRealmName(realm), << >>) # << >>
    THEN <<normalizeRealmName(realm)>>
    ELSE IF MapGet(bank, S_general, << >>) # << >>
    THEN <<S_general>>
    ELSE << >>

\* the bank as a getRandomQuestions call that returned r leaves it
BankAfter(bank, realm, r) ==
    [k \in DOMAIN bank |->
        IF <<k>> = StoredKey(bank, realm)
        THEN CorpusAfter(bank[k], r.mix.questions, r.shuffled)
        ELSE bank[k]]

\* getQuestionCount: this.questionBank.get(normalizedRealm)?.length || 0
getQuestionCount(bank, realm) == Len(MapGet(bank, normalizeRealmName(realm), << >>))

\* getQuestionStats
getQuestionStats(bank) ==
    [realm \in DOMAIN bank |->
        [total |-> Len(bank[realm]),
         easy |-> Len(Filter(bank[realm], LAMBDA q : q.difficulty = "easy")),
         medium |-> Len(Filter(bank[realm], LAMBDA q : q.difficulty = "medium")),
         hard |-> Len(Filter(bank[realm], LAMBDA q : q.difficulty = "hard"))]]

\* clearRecentlyUsedQuestions
clearRecentlyUsedQuestions(map, realm) ==
    IF realm # << >> THEN MapDelete(map, realm) ELSE EmptyMap

----------------------------------------------------------------------------
(* Requests *)

S_cats == <<"c","a","t","s">>
S_rGaming == <<"r","/","G","a","m","i","n","g">>
S_b1 == <<"b","1">>

\* The (realm, count) pairs requested of each bank
Requests(bank) ==
    IF bank = ShippedBank
    THEN ({S_rGaming} \X {1, 3, 6}) \cup ({S_science} \X {6, 50})
         \cup ({S_general} \X {1, 8, 50}) \cup ({S_cats} \X {6})
    ELSE IF bank = ScenarioBank
    THEN ({S_gaming} \X {0, 5, 6, 15}) \cup ({S_movies} \X {6}) \cup ({S_void} \X {1})
    ELSE {S_gaming} \X {6, LargeEasy + LargeMedium + LargeHard}

\* The session identifier sent along with Math.random() stream s
Streams == 0..MaxStream
SessionOf(s) == IF s % 2 = 0 THEN NoSession ELSE S_b1

ClearInputs == {<< >>, S_gaming, S_general}

NoRequest ==
    [op |-> "none", realm |-> << >>, count |-> 0, sessionId |-> NoSession,
     questions |-> << >>, served |-> << >>, tracked |-> << >>, eligible |-> << >>,
     key |-> << >>,
     reset |-> FALSE, pruned |-> FALSE, cooled |-> 0, picked |-> 0,
     tierPicked |-> 0, hardPicked |-> 0]

NoProbe == [fn |-> "none"]

\* no /api/init request has been received
NoHandlers == << >>
NoData == [players |-> EmptyMap, board |-> << >>]

\* what is kept of a getRandomQuestions call that returned r
Returned(realm, count, sessionId, r, before) ==
    [op |-> "getRandomQuestions", realm |-> realm, count |-> count,
     sessionId |-> sessionId,
     questions |-> r.questions,
     served |-> QuestionIds(r.mix.questions),
     tracked |-> QuestionIds(r.mix.selected),
     eligible |-> QuestionIds(r.mix.available),
     key |-> r.mix.realm,
     reset |-> r.mix.reset,
     pruned |-> r.mix.pruned,
     cooled |-> Len(r.candidates)
                - Len(AvailableQuestions(r.candidates, MapGet(before, r.mix.realm, << >>))),
     picked |-> Len(r.mix.selected),
     tierPicked |-> Len(r.mix.tiers),
     hardPicked |-> Len(Filter(r.mix.tiers, LAMBDA q : q.difficulty = "hard"))]

\* the state a getRandomQuestions call that returned r leaves
Return(realm, count, sessionId, r) ==
    /\ questionBank' = BankAfter(questionBank, realm, r)
    /\ recentlyUsedQuestions' = r.mix.map
    /\ last' = Returned(realm, count, sessionId, r, recentlyUsedQuestions)

GetRandomQuestions(realm, count, sessionId, s) ==
    /\ now < MaxCalls
    /\ Return(realm, count, sessionId,
              getRandomQuestions(questionBank, recentlyUsedQuestions,
                                 realm, count, sessionId, now, s))
    /\ prev' = last
    /\ now' = now + 1
    /\ UNCHANGED <<probe, inflight, redis>>

ClearRecentlyUsedQuestions(realm) ==
    /\ now < MaxCalls
    /\ recentlyUsedQuestions' = clearRecentlyUsedQuestions(recentlyUsedQuestions, realm)
    /\ last' = [NoRequest EXCEPT !.op = "clearRecentlyUsedQuestions", !.realm = realm]
    /\ prev' = last
    /\ now' = now + 1
    /\ UNCHANGED <<questionBank, probe, inflight, redis>>

\* shuffleQuestionOptions called on one question; perm is the same shuffle
\* applied to the original indices, i.e. where each option went
ShuffleQuestionOptions(s, k) ==
    /\ probe.fn = "input"
    /\ probe' = [fn |-> "shuffleQuestionOptions",
                 question |-> probe.question,
                 result |-> shuffleQuestionOptions(<<probe.question>>, s, k)[1],
                 perm |-> shuffleArray(<<0, 1, 2, 3>>, s, k)]
    /\ UNCHANGED <<questionBank, recentlyUsedQuestions, now, last, prev, inflight, redis>>

Init ==
    /\ questionBank \in Banks
    /\ recentlyUsedQuestions = EmptyMap
    /\ now = 0
    /\ last = NoRequest
    /\ prev = NoRequest
    /\ probe = NoProbe
    /\ inflight = NoHandlers
    /\ redis = NoData

Next ==
    \/ \E req \in Requests(questionBank), s \in Streams :
          GetRandomQuestions(req[1], req[2], SessionOf(s), s)
    \/ \E realm \in ClearInputs : ClearRecentlyUsedQuestions(realm)

Spec == Init /\ [][Next]_vars

\* The read-only operations, and the engine with every public operation
CountInputs == {S_rGaming, S_cats}

GetQuestionStats ==
    /\ now < MaxCalls
    /\ probe' = [fn |-> "getQuestionStats", result |-> getQuestionStats(questionBank)]
    /\ last' = [NoRequest EXCEPT !.op = "getQuestionStats"]
    /\ prev' = last
    /\ now' = now + 1
    /\ UNCHANGED <<questionBank, recentlyUsedQuestions, inflight, redis>>

GetQuestionCount(realm) ==
    /\ now < MaxCalls
    /\ probe' = [fn |-> "getQuestionCount", realm |-> realm,
                 result |-> getQuestionCount(questionBank, realm)]
    /\ last' = [NoRequest EXCEPT !.op = "getQuestionCount", !.realm = realm]
    /\ prev' = last
    /\ now' = now + 1
    /\ UNCHANGED <<questionBank, recentlyUsedQuestions, inflight, redis>>

NextAll ==
    \/ \E req \in Requests(questionBank), s \in Streams :
          GetRandomQuestions(req[1], req[2], SessionOf(s), s)
    \/ \E realm \in ClearInputs : ClearRecentlyUsedQuestions(realm)
    \/ GetQuestionStats
    \/ \E realm \in CountInputs : GetQuestionCount(realm)

SpecAll == Init /\ [][NextAll]_vars

\* shuffleQuestionOptions on its own, over questions whose options may repeat
OptionTexts == 4     \* option texts 1..OptionTexts
MaxOffset == 3       \* first Math.random() value used: 0..MaxOffset

OptionQuestions ==
    {Q(1, <<a, b, c, d>>, correct, "easy", T_Reddit, "fallback") :
        a \in 1..OptionTexts, b \in 1..OptionTexts, c \in 1..OptionTexts,
        d \in 1..OptionTexts, correct \in 0..3}

InitOptions ==
    /\ questionBank = EmptyMap
    /\ recentlyUsedQuestions = EmptyMap
    /\ now = 0
    /\ last = NoRequest
    /\ prev = NoRequest
    /\ \E q \in OptionQuestions : probe = [fn |-> "input", question |-> q]
    /\ inflight = NoHandlers
    /\ redis = NoData

NextOptions == \E s \in Streams, k \in 0..MaxOffset : ShuffleQuestionOptions(s, k)

SpecOptions == InitOptions /\ [][NextOptions]_vars

\* Realm lookup on its own: the corpus and the cooldown key two realm strings
\* select from the shipped bank
RealmNames ==
    {S_gaming, T_Gaming, <<"G","A","M","I","N","G">>, S_science, T_Science,
     S_general, S_cats}
RealmPrefixes == {<< >>, <<"r","/">>, <<"R","/">>}
RealmStrings == {p \o n : p \in RealmPrefixes, n \in RealmNames}

InitRealms ==
    /\ questionBank = ShippedBank
    /\ recentlyUsedQuestions = EmptyMap
    /\ now = 0
    /\ last = NoRequest
    /\ prev = NoRequest
    /\ \E a \in RealmStrings, b \in RealmStrings : probe = [fn |-> "realms", a |-> a, b |-> b]
    /\ inflight = NoHandlers
    /\ redis = NoData

\* lines 30-42 and line 59 for each of the two realm strings
LookUpRealms ==
    /\ probe.fn = "realms"
    /\ probe' = [fn |-> "normalizeRealmName", a |-> probe.a, b |-> probe.b,
                 keyA |-> normalizeRealmName(probe.a),
                 keyB |-> normalizeRealmName(probe.b),
                 corpusA |-> ResolveQuestions(questionBank, probe.a),
                 corpusB |-> ResolveQuestions(questionBank, probe.b),
                 cooldownA |-> getCurrentRealm(ResolveQuestions(questionBank, probe.a)),
                 cooldownB |-> getCurrentRealm(ResolveQuestions(questionBank, probe.b))]
    /\ UNCHANGED <<questionBank, recentlyUsedQuestions, now, last, prev, inflight, redis>>

NextRealms == LookUpRealms

SpecRealms == InitRealms /\ [][NextRealms]_vars

\* advancedShuffle on its own, over arrays whose elements may repeat
MaxLen == 3          \* array lengths 0..MaxLen
ArrayValues == 3     \* array elements 1..ArrayValues
S_a2 == <<"a","2">>

RECURSIVE ArraysOfLength(_)
ArraysOfLength(n) ==
    IF n = 0 THEN {<< >>}
    ELSE {Append(a, v) : a \in ArraysOfLength(n - 1), v \in 1..ArrayValues}

ShuffleArrays == UNION {ArraysOfLength(n) : n \in 0..MaxLen}

InitShuffle ==
    /\ questionBank = EmptyMap
    /\ recentlyUsedQuestions = EmptyMap
    /\ now = 0
    /\ last = NoRequest
    /\ prev = NoRequest
    /\ \E array \in ShuffleArrays, sessionId \in {NoSession, S_b1, S_a2} :
          probe = [fn |-> "array", array |-> array, sessionId |-> sessionId]
    /\ inflight = NoHandlers
    /\ redis = NoData

\* advancedShuffle called twice on the same array with the same session
\* identifier: at time clock with Math.random() stream s from its k-th value,
\* and one tick later with the next stream
AdvancedShuffle(s, k, clock) ==
    /\ probe.fn = "array"
    /\ probe' = [fn |-> "advancedShuffle",
                 array |-> probe.array,
                 sessionId |-> probe.sessionId,
                 clock |-> clock,
                 result |-> advancedShuffle(probe.array, probe.sessionId, clock, s, k),
                 arrayAfter |-> ArrayAfterShuffle(probe.array,
                                    advancedShuffle(probe.array, probe.sessionId, clock, s, k)),
                 seeded |-> SeededOrder(probe.array, probe.sessionId, clock),
                 again |-> advancedShuffle(probe.array, probe.sessionId, clock + 1,
                                           (s + 1) % (MaxStream + 1), k),
                 seededAgain |-> SeededOrder(probe.array, probe.sessionId, clock + 1)]
    /\ UNCHANGED <<questionBank, recentlyUsedQuestions, now, last, prev, inflight, redis>>

NextShuffle == \E s \in Streams, k \in 0..MaxOffset, clock \in 0..MaxCalls : AdvancedShuffle(s, k, clock)

SpecShuffle == InitShuffle /\ [][NextShuffle]_vars

----------------------------------------------------------------------------
(* hashCode on its own, over session identifiers of up to MaxWords pieces *)

MaxWords == 2        \* pieces a session identifier is put together from

W_polygene == <<"p","o","l","y","g","e","n","e">>
W_lubricants == <<"l","u","b","r","i","c","a","n","t","s">>
W_stamp == <<"1","7","3","0","5","6","3","2","0","0","0","0","0","-">>
W_random == <<"k","3","j","9","x","2","m","1","q">>
W_Aa == <<"A","a">>
W_BB == <<"B","B">>
W_zzzzzzz == <<"z","z","z","z","z","z","z">>

\* pieces of session identifiers: the two parts of the identifiers index.ts
\* makes (a time stamp with a dash, nine base-36 digits), short identifiers,
\* and pieces whose hash leaves the 32-bit range on the way
HashWords == {W_polygene, W_lubricants, W_stamp, W_random, W_Aa, W_BB, W_zzzzzzz,
              S_b1, S_a2}

RECURSIVE StringsOfWords(_)
StringsOfWords(n) ==
    IF n = 0 THEN {<< >>}
    ELSE {str \o w : str \in StringsOfWords(n - 1), w \in HashWords}

SessionStrings == UNION {StringsOfWords(n) : n \in 0..MaxWords}

InitHash ==
    /\ questionBank = EmptyMap
    /\ recentlyUsedQuestions = EmptyMap
    /\ now = 0
    /\ last = NoRequest
    /\ prev = NoRequest
    /\ \E str \in SessionStrings : probe = [fn |-> "string", str |-> str]
    /\ inflight = NoHandlers
    /\ redis = NoData

HashCode ==
    /\ probe.fn = "string"
    /\ probe' = [fn |-> "hashCode", str |-> probe.str, result |-> hashCode(probe.str)]
    /\ UNCHANGED <<questionBank, recentlyUsedQuestions, now, last, prev, inflight, redis>>

NextHash == HashCode

SpecHash == InitHash /\ [][NextHash]_vars

----------------------------------------------------------------------------
(* getRandomQuestions called again and again for one realm with one count *)

MaxWatched == 3      \* identities followed per realm

\* The (bank, realm, count) of the repeated requests
RepeatedRequests ==
    {<<ShippedBank, S_general, 1>>, <<ShippedBank, S_general, 8>>,
     <<ShippedBank, S_cats, 6>>, <<ScenarioBank, S_movies, 6>>,
     <<LargeBank, S_gaming, LargeEasy + LargeMedium + LargeHard>>}

\* The identities whose stay on cooldown is followed: those of MaxWatched
\* candidates spread evenly over the realm's candidates
WatchedOf(questions) ==
    {getQuestionId(questions[1 + (j * Len(questions)) \div MaxWatched]) :
         j \in 0..(MaxWatched - 1)}

InitRepeat ==
    /\ recentlyUsedQuestions = EmptyMap
    /\ now = 0
    /\ last = NoRequest
    /\ prev = NoRequest
    /\ inflight = NoHandlers
    /\ redis = NoData
    /\ \E req \in RepeatedRequests :
          /\ questionBank = req[1]
          /\ \E id \in WatchedOf(ResolveQuestions(req[1], req[2])) :
                probe = [fn |-> "repeat", realm |-> req[2], count |-> req[3],
                         watched |-> id]

\* one more call; the clock (Date.now(), read for the seed of a request
\* without session identifier) is kept modulo MaxCalls + 1
RepeatRequest(s) ==
    /\ probe.fn = "repeat"
    /\ Return(probe.realm, probe.count, SessionOf(s),
              getRandomQuestions(questionBank, recentlyUsedQuestions,
                                 probe.realm, probe.count, SessionOf(s), now, s))
    /\ prev' = last
    /\ now' = (now + 1) % (MaxCalls + 1)
    /\ UNCHANGED <<probe, inflight, redis>>

NextRepeat == \E s \in Streams : RepeatRequest(s)

\* the caller goes on calling: every call advances the clock, and a step
\* that advances the clock is always possible
OneMoreCall == probe.fn = "repeat" /\ now' = (now + 1) % (MaxCalls + 1)

SpecRepeat == InitRepeat /\ [][NextRepeat]_vars /\ WF_now(OneMoreCall)

----------------------------------------------------------------------------
(* GET /api/init (index.ts:102-191): an async handler.  Between two awaits
   its code runs to completion; other requests run while it awaits. *)

MaxInFlight == 2     \* /api/init requests in flight at once

\* the subreddit names (line 120) of the requests sent to each bank
InitRealmsOf(bank) ==
    IF bank = ShippedBank THEN {S_gaming} ELSE {S_movies}

\* what aiGenerator.generateQuestionsForRealm does: the promise is rejected,
\* or it answers with the 5 questions its prompt asks for, or with the 3 of
\* its own fallback list
Generations == {[throws |-> TRUE, questions |-> 0],
                [throws |-> FALSE, questions |-> 5],
                [throws |-> FALSE, questions |-> 3]}

Idle == [pc |-> "idle", realm |-> << >>, calls |-> 0, count |-> 0, status |-> 0]

\* lines 141-148, after a top-up call that returned r
ToppedUp(have, r, before, prevRequest, calls) ==
    [map |-> r.mix.map,
     last |-> Returned(S_general, 6 - have, S_a2, r, before),
     prev |-> prevRequest,
     calls |-> calls + 1,
     count |-> have + Len(r.questions)]

\* lines 141-148: with fewer than 6 questions, top up from 'general'
TopUp(bank, map, have, lastRequest, prevRequest, calls, clock, s) ==
    IF have < 6
    THEN ToppedUp(have,
                  getRandomQuestions(bank, map, S_general, 6 - have, S_a2, clock, s),
                  map, lastRequest, calls)
    ELSE [map |-> map, last |-> lastRequest, prev |-> prevRequest,
          calls |-> calls, count |-> have]

\* lines 137-148, after the call of line 137 returned r
Loaded(bank, map, realm, r, lastRequest, clock, s) ==
    TopUp(bank, r.mix.map, Len(r.questions),
          Returned(realm, 50, S_b1, r, map), lastRequest, 1, clock + 1, s)

\* lines 127-148: the questions of the response, and what the calls of the
\* question database leave behind
SelectQuestions(bank, map, realm, generation, lastRequest, prevRequest, clock, s) ==
    IF generation.throws
    THEN Loaded(bank, map, realm,
                getRandomQuestions(bank, map, realm, 50, S_b1, clock, s),
                lastRequest, clock, s)
    ELSE TopUp(bank, map, generation.questions, lastRequest, prevRequest, 0, clock, s)

\* the handler after res.json or res.status(...).json: its locals are gone
Answered(status) == [Idle EXCEPT !.pc = "done", !.status = status]

\* lines 102-118: the request arrives (requests are numbered in their order
\* of arrival); without a postId it is answered 400, with one the two reddit
\* calls start
Arrive(p, postId) ==
    /\ inflight[p].pc = "idle"
    /\ \A o \in 1..(p - 1) : inflight[o].pc # "idle"
    /\ inflight' = [inflight EXCEPT ![p] =
          IF postId THEN [@ EXCEPT !.pc = "awaitUser"] ELSE Answered(400)]
    /\ UNCHANGED <<questionBank, recentlyUsedQuestions, now, last, prev, probe, redis>>

\* lines 115-129: the reddit calls settle (a rejection is answered 500) and
\* the question generation starts
UserResolved(p, ok, realm) ==
    /\ inflight[p].pc = "awaitUser"
    /\ inflight' = [inflight EXCEPT ![p] =
          IF ok
          THEN [@ EXCEPT !.pc = "awaitAI", !.realm = realm]
          ELSE Answered(500)]
    /\ UNCHANGED <<questionBank, recentlyUsedQuestions, now, last, prev, probe, redis>>

\* the state the synchronous stretch of lines 129-157 leaves
Selected(p, sel) ==
    /\ recentlyUsedQuestions' = sel.map
    /\ last' = sel.last
    /\ prev' = sel.prev
    /\ now' = now + sel.calls
    /\ inflight' = [inflight EXCEPT ![p] =
          [@ EXCEPT !.pc = "awaitLeaderboard", !.calls = sel.calls, !.count = sel.count]]

\* lines 129-157: the generation settles, the questions are chosen, and the
\* read of the leaderboard starts
Generated(p, generation, s) ==
    /\ inflight[p].pc = "awaitAI"
    /\ Selected(p, SelectQuestions(questionBank, recentlyUsedQuestions, inflight[p].realm,
                                   generation, last, prev, now, s))
    /\ UNCHANGED <<questionBank, probe, redis>>

\* lines 157-162: the leaderboard is read, the read of the player starts
LeaderboardRead(p, ok) ==
    /\ inflight[p].pc = "awaitLeaderboard"
    /\ inflight' = [inflight EXCEPT ![p] =
          IF ok THEN [@ EXCEPT !.pc = "awaitStats"] ELSE Answered(500)]
    /\ UNCHANGED <<questionBank, recentlyUsedQuestions, now, last, prev, probe, redis>>

\* lines 162-178: the player is read and the response is sent
StatsRead(p, ok) ==
    /\ inflight[p].pc = "awaitStats"
    /\ inflight' = [inflight EXCEPT ![p] =
          Answered(IF ok THEN 200 ELSE 500)]
    /\ UNCHANGED <<questionBank, recentlyUsedQuestions, now, last, prev, probe, redis>>

InitApi ==
    /\ questionBank \in {ShippedBank, ScenarioBank}
    /\ recentlyUsedQuestions = EmptyMap
    /\ now = 0
    /\ last = NoRequest
    /\ prev = NoRequest
    /\ probe = NoProbe
    /\ inflight = [p \in 1..MaxInFlight |-> Idle]
    /\ redis = NoData

NextApi ==
    \E p \in 1..MaxInFlight :
        \/ \E postId \in BOOLEAN : Arrive(p, postId)
        \/ \E ok \in BOOLEAN, realm \in InitRealmsOf(questionBank) : UserResolved(p, ok, realm)
        \/ \E generation \in Generations, s \in Streams : Generated(p, generation, s)
        \/ \E ok \in BOOLEAN : LeaderboardRead(p, ok)
        \/ \E ok \in BOOLEAN : StatsRead(p, ok)

SpecApi == InitApi /\ [][NextApi]_vars

----------------------------------------------------------------------------
(* POST /api/game-complete (index.ts:194-300): an async handler around four
   redis commands.  A command takes effect in the store at one moment; the
   handler's code between two commands touches only its own locals, and is
   part of the step of the command that follows it.  The store keeps JSON
   texts of records of strings and finite numbers, which JSON.parse gives
   back as they were. *)

LeaderboardSize == 50

S_realm == "gaming"

\* the bodies of the requests
GameResults ==
    {[player |-> "alice", score |-> 10, totalQuestions |-> 6, correctAnswers |-> 3,
      battle |-> TRUE, playerWon |-> TRUE],
     [player |-> "alice", score |-> 20, totalQuestions |-> 5, correctAnswers |-> 5,
      battle |-> FALSE, playerWon |-> FALSE],
     [player |-> "bob", score |-> 0, totalQuestions |-> 6, correctAnswers |-> 0,
      battle |-> TRUE, playerWon |-> FALSE]}

Players == {g.player : g \in GameResults}

\* a leaderboard that earlier games of other players have filled
FullBoard ==
    [i \in 1..LeaderboardSize |->
        [username |-> ToString(i), score |-> LeaderboardSize + 1 - i,
         battlesWon |-> 0, battlesLost |-> 0, realm |-> S_realm]]

NoGame == [player |-> "", score |-> 0, totalQuestions |-> 0, correctAnswers |-> 0,
           battle |-> FALSE, playerWon |-> FALSE]

NoPlayer == [username |-> "", realm |-> "", score |-> 0, battlesWon |-> 0,
             battlesLost |-> 0, questionsAnswered |-> 0, correctAnswers |-> 0]

IdleGame == [pc |-> "idle", game |-> NoGame, playerData |-> NoPlayer,
             leaderboard |-> << >>, status |-> 0, newRank |-> 0]

\* lines 216-224: the record of a player who has none yet
NewPlayer(player) == [NoPlayer EXCEPT !.username = player, !.realm = S_realm]

\* lines 226-237
UpdatedPlayer(playerData, g) ==
    [playerData EXCEPT
        !.score = @ + g.score,
        !.questionsAnswered = @ + g.totalQuestions,
        !.correctAnswers = @ + g.correctAnswers,
        !.battlesWon = IF g.battle /\ g.playerWon THEN @ + 1 ELSE @,
        !.battlesLost = IF g.battle /\ ~g.playerWon THEN @ + 1 ELSE @]

\* Array.prototype.findIndex(entry => entry.username === player)
FindIndex(leaderboard, player) ==
    IF \E i \in 1..Len(leaderboard) : leaderboard[i].username = player
    THEN (CHOOSE i \in 1..Len(leaderboard) :
              /\ leaderboard[i].username = player
              /\ \A j \in 1..(i - 1) : leaderboard[j].username # player) - 1
    ELSE -1

\* lines 248-257
UpdatedEntry(entry, g) ==
    [entry EXCEPT
        !.score = @ + g.score,
        !.battlesWon = IF g.battle /\ g.playerWon THEN @ + 1 ELSE @,
        !.battlesLost = IF g.battle /\ ~g.playerWon THEN @ + 1 ELSE @]

\* lines 259-265
NewEntry(g) ==
    [username |-> g.player, score |-> g.score,
     battlesWon |-> IF g.battle /\ g.playerWon THEN 1 ELSE 0,
     battlesLost |-> IF g.battle /\ ~g.playerWon THEN 1 ELSE 0,
     realm |-> S_realm]

\* lines 247-266: find or create the player's entry
WithEntry(leaderboard, g) ==
    IF FindIndex(leaderboard, g.player) >= 0
    THEN [leaderboard EXCEPT ![FindIndex(leaderboard, g.player) + 1] = UpdatedEntry(@, g)]
    ELSE Append(leaderboard, NewEntry(g))

\* the place entry i of the array takes in sort((a, b) => b.score - a.score),
\* which is stable
PlaceOf(leaderboard, i) ==
    1 + Cardinality({j \in 1..Len(leaderboard) :
                        \/ leaderboard[j].score > leaderboard[i].score
                        \/ leaderboard[j].score = leaderboard[i].score /\ j < i})

\* the array with entry i moved to places[i]
Placed(leaderboard, places) ==
    IF places = << >> THEN << >>
    ELSE [k \in 1..Len(leaderboard) |->
             leaderboard[CHOOSE i \in 1..Len(leaderboard) : places[i] = k]]

\* line 269
SortByScore(leaderboard) ==
    Placed(leaderboard, [i \in 1..Len(leaderboard) |-> PlaceOf(leaderboard, i)])

\* lines 244-272: the leaderboard to store
NewLeaderboard(leaderboard, g) ==
    JsSlice(SortByScore(WithEntry(leaderboard, g)), 0, LeaderboardSize)

\* the handler after res.status(status).json(...): its locals are gone
Responded(handler, status) ==
    [IdleGame EXCEPT !.pc = "done", !.game = handler.game, !.status = status]

\* lines 198-215: the request arrives (requests are numbered in their order
\* of arrival); without a postId it is answered 400
Submit(p, g, postId) ==
    /\ inflight[p].pc = "idle"
    /\ \A o \in 1..(p - 1) : inflight[o].pc # "idle"
    /\ inflight' = [inflight EXCEPT ![p] =
          IF postId THEN [@ EXCEPT !.pc = "getPlayer", !.game = g]
          ELSE Responded([@ EXCEPT !.game = g], 400)]
    /\ UNCHANGED <<questionBank, recentlyUsedQuestions, now, last, prev, probe, redis>>

\* lines 215-237: redis.get(playerKey) is served, and the handler works out
\* the record to store
PlayerGet(p, ok) ==
    /\ inflight[p].pc = "getPlayer"
    /\ inflight' = [inflight EXCEPT ![p] =
          IF ok
          THEN [@ EXCEPT !.pc = "setPlayer",
                         !.playerData =
                             UpdatedPlayer(MapGet(redis.players, inflight[p].game.player,
                                                  NewPlayer(inflight[p].game.player)),
                                           inflight[p].game)]
          ELSE Responded(@, 500)]
    /\ UNCHANGED <<questionBank, recentlyUsedQuestions, now, last, prev, probe, redis>>

\* line 239: redis.set(playerKey, ...) is served
PlayerSet(p, ok) ==
    /\ inflight[p].pc = "setPlayer"
    /\ inflight' = [inflight EXCEPT ![p] =
          IF ok THEN [@ EXCEPT !.pc = "getLeaderboard"] ELSE Responded(@, 500)]
    /\ redis' = IF ok
                THEN [redis EXCEPT !.players =
                         MapSet(@, inflight[p].game.player, inflight[p].playerData)]
                ELSE redis
    /\ UNCHANGED <<questionBank, recentlyUsedQuestions, now, last, prev, probe>>

\* lines 242-272: redis.get(leaderboardKey) is served, and the handler works
\* out the leaderboard to store
LeaderboardGet(p, ok) ==
    /\ inflight[p].pc = "getLeaderboard"
    /\ inflight' = [inflight EXCEPT ![p] =
          IF ok
          THEN [@ EXCEPT !.pc = "setLeaderboard",
                         !.leaderboard = NewLeaderboard(redis.board, inflight[p].game)]
          ELSE Responded(@, 500)]
    /\ UNCHANGED <<questionBank, recentlyUsedQuestions, now, last, prev, probe, redis>>

\* line 274: redis.set(leaderboardKey, ...) is served
LeaderboardSet(p, ok) ==
    /\ inflight[p].pc = "setLeaderboard"
    /\ inflight' = [inflight EXCEPT ![p] =
          IF ok THEN [@ EXCEPT !.pc = "respond"] ELSE Responded(@, 500)]
    /\ redis' = IF ok THEN [redis EXCEPT !.board = inflight[p].leaderboard] ELSE redis
    /\ UNCHANGED <<questionBank, recentlyUsedQuestions, now, last, prev, probe>>

\* lines 276-291: the rank is looked up and the response is sent; a newRank
\* of 0 is sent as undefined
Respond(p) ==
    /\ inflight[p].pc = "respond"
    /\ inflight' = [inflight EXCEPT ![p] =
          [Responded(@, 200) EXCEPT
              !.newRank = FindIndex(inflight[p].leaderboard,
                                    inflight[p].game.player) + 1]]
    /\ UNCHANGED <<questionBank, recentlyUsedQuestions, now, last, prev, probe, redis>>

InitGames ==
    /\ questionBank = EmptyMap
    /\ recentlyUsedQuestions = EmptyMap
    /\ now = 0
    /\ last = NoRequest
    /\ prev = NoRequest
    /\ probe = NoProbe
    /\ inflight = [p \in 1..MaxInFlight |-> IdleGame]
    /\ redis \in {NoData, [NoData EXCEPT !.board = FullBoard]}

NextGames ==
    \E p \in 1..MaxInFlight :
        \/ \E g \in GameResults, postId \in BOOLEAN : Submit(p, g, postId)
        \/ \E ok \in BOOLEAN : PlayerGet(p, ok)
        \/ \E ok \in BOOLEAN : PlayerSet(p, ok)
        \/ \E ok \in BOOLEAN : LeaderboardGet(p, ok)
        \/ \E ok \in BOOLEAN : LeaderboardSet(p, ok)
        \/ Respond(p)

SpecGames == InitGames /\ [][NextGames]_vars

----------------------------------------------------------------------------
(* Properties *)

IsGet(r) == r.op = "getRandomQuestions"

\* the corpus the requested realm resolves to, read off the bank
OwnCorpus(realm) == MapGet(questionBank, normalizeRealmName(realm), << >>)
GeneralCorpus == MapGet(questionBank, S_general, << >>)
CorpusOf(realm) ==
    IF OwnCorpus(realm) # << >> THEN OwnCorpus(realm)
    ELSE IF GeneralCorpus # << >> THEN GeneralCorpus
    ELSE getBasicFallbackQuestions

Distinct(seq) == \A i, j \in 1..Len(seq) : i # j => seq[i] # seq[j]
Range(seq) == {seq[i] : i \in 1..Len(seq)}
CountIn(arr, x) == Cardinality({i \in 1..Len(arr) : arr[i] = x})
SameOptions(a, b) ==
    /\ Len(a) = Len(b)
    /\ \A x \in Range(a) \cup Range(b) : CountIn(a, x) = CountIn(b, x)

\* q is a question of corpus: same text, difficulty, topic, multiset of options
FromCorpus(q, corpus) ==
    \E i \in 1..Len(corpus) :
        /\ corpus[i].question = q.question
        /\ corpus[i].difficulty = q.difficulty
        /\ corpus[i].topic = q.topic
        /\ SameOptions(corpus[i].options, q.options)

TierCount(questions, d) == Cardinality({i \in 1..Len(questions) : questions[i].difficulty = d})

\* the least integer c with c >= 0.4 * n
CeilTwoFifths(n) == CHOOSE c \in 0..n : 5 * c >= 2 * n /\ (c = 0 \/ 5 * (c - 1) < 2 * n)

\* C1: a request for 1 <= n <= |corpus| questions returns exactly n questions,
\* whatever requests came before
C1_ExactCount ==
    (IsGet(last) /\ last.count >= 1 /\ last.count <= Len(CorpusOf(last.realm)))
        => Len(last.questions) = last.count

\* C2: the questions of one batch have pairwise distinct identities
\* (text, original correct index)
C2_DistinctIdentities == IsGet(last) => Distinct(last.served)

SameRealm(a, b) == normalizeRealmName(a.realm) = normalizeRealmName(b.realm)

C4_AtMostCount == IsGet(last) => Len(last.questions) <= last.count

C4_Witness ==
    /\ IsGet(last) /\ last.count \in {1, 3}
    /\ last.picked > last.count
    /\ Len(last.questions) = last.count

\* C5: a request for more questions than the corpus holds returns the whole
\* corpus, each identity once, in every cooldown state
C5_WholeCorpus ==
    (IsGet(last) /\ Len(CorpusOf(last.realm)) < last.count)
        => /\ Len(last.questions) = Len(CorpusOf(last.realm))
           /\ Distinct(last.served)

\* C6: every returned question is a question of the corpus the realm
\* resolves to: nothing is fabricated
C6_NothingFabricated ==
    IsGet(last) =>
        \A i \in 1..Len(last.questions) : FromCorpus(last.questions[i], CorpusOf(last.realm))

C6_Witness ==
    /\ IsGet(last)
    /\ \E i \in 1..Len(last.questions) :
          \E j \in 1..Len(CorpusOf(last.realm)) :
              /\ CorpusOf(last.realm)[j].question = last.questions[i].question
              /\ CorpusOf(last.realm)[j].options # last.questions[i].options

\* C7: shuffleQuestionOptions keeps the number of options, and the option at
\* the new correct index has the text of the option at the original one
C7_CorrectTextKept ==
    probe.fn = "shuffleQuestionOptions" =>
        /\ Len(probe.result.options) = Len(probe.question.options)
        /\ probe.result.correct \in 0..(Len(probe.result.options) - 1)
        /\ probe.result.options[probe.result.correct + 1]
              = probe.question.options[probe.question.correct + 1]

C7_Witness ==
    /\ probe.fn = "shuffleQuestionOptions"
    /\ Distinct(probe.question.options)
    /\ probe.result.correct # probe.question.correct
    /\ probe.result.options # probe.question.options

\* C8: with two options of the same text, the new correct index is the place
\* the originally correct option was moved to
C8_CorrectOptionTracked ==
    probe.fn = "shuffleQuestionOptions" =>
        probe.result.correct = IndexOf(probe.perm, probe.question.correct)

\* C9: from a pool with nothing on cooldown and enough supply in every tier,
\* a count n with 2*ceil(0.4n) <= n yields ceil(0.4n) easy, ceil(0.4n) medium
\* and n - 2*ceil(0.4n) hard questions
C9_Supplied(r) ==
    /\ IsGet(r) /\ r.cooled = 0
    /\ 2 * CeilTwoFifths(r.count) <= r.count
    /\ TierCount(CorpusOf(r.realm), "easy") >= CeilTwoFifths(r.count)
    /\ TierCount(CorpusOf(r.realm), "medium") >= CeilTwoFifths(r.count)
    /\ TierCount(CorpusOf(r.realm), "hard") >= r.count - 2 * CeilTwoFifths(r.count)

C9_TierMix ==
    C9_Supplied(last) =>
        /\ TierCount(last.questions, "easy") = CeilTwoFifths(last.count)
        /\ TierCount(last.questions, "medium") = CeilTwoFifths(last.count)
        /\ TierCount(last.questions, "hard") = last.count - 2 * CeilTwoFifths(last.count)

C9_Witness ==
    /\ C9_Supplied(last)
    /\ questionBank = ScenarioBank /\ last.realm = S_gaming /\ last.count = 6
    /\ TierCount(last.questions, "easy") = 3
    /\ TierCount(last.questions, "medium") = 3

\* C10: lookup falls back from the realm to "general" to the built-in set: a
\* request for at least one question is never answered with none, and is
\* answered from the realm's own corpus whenever that corpus is not empty
C10_FallbackChain ==
    (IsGet(last) /\ last.count >= 1) =>
        /\ last.questions # << >>
        /\ \A i \in 1..Len(last.questions) :
              FromCorpus(last.questions[i],
                         IF OwnCorpus(last.realm) # << >> THEN OwnCorpus(last.realm)
                         ELSE IF GeneralCorpus # << >> THEN GeneralCorpus
                         ELSE getBasicFallbackQuestions)

C10_Witness ==
    /\ IsGet(last) /\ last.count >= 1
    /\ normalizeRealmName(last.realm) \in DOMAIN questionBank
    /\ OwnCorpus(last.realm) = << >>
    /\ GeneralCorpus = << >>
    /\ last.questions # << >>

\* a realm string in lower case with a leading "r/" (in either case) removed
StripPrefix(lowered) ==
    IF Len(lowered) >= 2 /\ lowered[1] = "r" /\ lowered[2] = "/"
    THEN SubSeq(lowered, 3, Len(lowered))
    ELSE lowered
CanonicalRealm(realm) == StripPrefix(toLowerCase(realm))

\* C11: two realm strings that are equal once the "r/" prefix is stripped and
\* the letters are lowercased, whatever the letter case of the input (prefix
\* included), select the same corpus and the same cooldown set
C11_SameRealmSameCorpus ==
    (probe.fn = "normalizeRealmName" /\ CanonicalRealm(probe.a) = CanonicalRealm(probe.b))
        => /\ probe.corpusA = probe.corpusB
           /\ probe.cooldownA = probe.cooldownB

\* C12: in every cooldown state a request for n >= 1 questions returns at
\* least min(n, 6, corpus size) questions: filtering never starves the caller
C12_NeverStarves ==
    (IsGet(last) /\ last.count >= 1)
        => Len(last.questions) >= Min(last.count, Min(6, Len(CorpusOf(last.realm))))

C12_Witness ==
    /\ IsGet(prev) /\ IsGet(last) /\ last.count >= 1
    /\ last.cooled > Len(CorpusOf(last.realm)) - 6
    /\ last.reset
    /\ Len(last.questions) = Min(last.count, Len(CorpusOf(last.realm)))

CooldownOf(realm) ==
    MapGet(recentlyUsedQuestions,
           getCurrentRealm(ResolveQuestions(questionBank, realm)), << >>)

\* C16: after clearRecentlyUsedQuestions(R) the cooldown set the next request
\* for R consults is empty; after clearRecentlyUsedQuestions() every cooldown
\* set is empty
C16_ClearEmpties ==
    last.op = "clearRecentlyUsedQuestions" =>
        IF last.realm = << >>
        THEN \A k \in DOMAIN recentlyUsedQuestions : recentlyUsedQuestions[k] = << >>
        ELSE CooldownOf(last.realm) = << >>

\* the handler p chooses its questions in this step (index.ts:129-157)
Selects(p) == inflight[p].pc = "awaitAI" /\ inflight'[p].pc = "awaitLeaderboard"

\* the cooldown set under key, before and after the step
SetBefore(key) == Range(MapGet(recentlyUsedQuestions, key, << >>))
SetAfter(key) == Range(MapGet(recentlyUsedQuestions', key, << >>))

\* the calls of getRandomQuestions made in the step of handler p, in order
CallsOf(p) ==
    IF inflight'[p].calls = 0 THEN << >>
    ELSE IF inflight'[p].calls = 1 THEN <<last'>>
    ELSE <<prev', last'>>

\* C17: with several /api/init requests in flight, every call of
\* getRandomQuestions a handler makes adds its batch to the cooldown set left
\* by the other handlers: after the handler's step the set holds the batch
\* of each of its calls (up to a later prune or reset of the same set), and
\* a set that was neither reset nor pruned in the step still holds every
\* identity the earlier requests recorded
C17_NoLostUpdate ==
    [][\A p \in DOMAIN inflight : Selects(p) =>
          /\ \A i \in 1..Len(CallsOf(p)) :
                \/ CallsOf(p)[i].pruned
                \/ \E j \in (i + 1)..Len(CallsOf(p)) :
                      /\ CallsOf(p)[j].key = CallsOf(p)[i].key
                      /\ CallsOf(p)[j].reset \/ CallsOf(p)[j].pruned
                \/ Range(CallsOf(p)[i].served) \subseteq SetAfter(CallsOf(p)[i].key)
          /\ \A key \in DOMAIN recentlyUsedQuestions :
                \/ \E i \in 1..Len(CallsOf(p)) :
                      /\ CallsOf(p)[i].key = key
                      /\ CallsOf(p)[i].reset \/ CallsOf(p)[i].pruned
                \/ SetBefore(key) \subseteq SetAfter(key)
      ]_vars

\* two requests in flight for the same realm have both chosen their
\* questions, the second without a reset or a prune, and the cooldown set
\* holds both batches
C17_Witness ==
    /\ \A p \in {1, 2} : p \in DOMAIN inflight /\ inflight[p].pc
            \in {"awaitLeaderboard", "awaitStats"} /\ inflight[p].calls = 1
    /\ inflight[1].realm = inflight[2].realm
    /\ IsGet(prev) /\ IsGet(last) /\ prev.key = last.key
    /\ ~last.reset /\ ~last.pruned
    /\ Range(prev.served) # {} /\ Range(last.served) # {}
    /\ Range(prev.served) \cap Range(last.served) = {}
    /\ Range(prev.served) \cup Range(last.served)
            \subseteq Range(MapGet(recentlyUsedQuestions, last.key, << >>))

\* the candidates of request r that were not in the realm's set when r started
Fresh(r) == Len(CorpusOf(r.realm)) - r.cooled

\* C18: filterRecentlyUsedQuestions hands on exactly the candidates that are
\* not in the realm's set when at least as many as the request asks for
\* remain; when fewer remain it empties the set (which then holds what this
\* request records, nothing older) and hands on every candidate
C18_FilterOrReset ==
    IsGet(last) =>
        IF Fresh(last) < last.count
        THEN /\ last.eligible = QuestionIds(CorpusOf(last.realm))
             /\ last.pruned \/ Range(MapGet(recentlyUsedQuestions, last.key, << >>))
                                   = Range(last.tracked)
        ELSE /\ Len(last.eligible) = Fresh(last)
             /\ Range(last.eligible) \subseteq Range(QuestionIds(CorpusOf(last.realm)))

\* C19: the identities a getRandomQuestions call records in the realm's
\* cooldown set are exactly the identities (before the option shuffle) of
\* the questions it returns
C19_TrackedAreServed ==
    IsGet(last) => Range(last.tracked) = Range(last.served)

\* the questions as stored: those of the bank and the built-in ones
StoredQuestions ==
    UNION {Range(questionBank[k]) : k \in DOMAIN questionBank}
        \cup Range(getBasicFallbackQuestions)

\* the identity (text, original correct index) of a stored question
IsStoredIdentity(id) ==
    \E q \in StoredQuestions : id = <<q.question, q.correct>>

\* request r returned the question with identity id with its correct
\* answer at another index than the stored one
ServedRelocated(r, id) ==
    \E i \in 1..Len(r.questions) :
        r.questions[i].question = id[1] /\ r.questions[i].correct # id[2]

\* C20: every entry of every cooldown set is the identity (text, original
\* correct index) of a question as stored, whatever permutation of the
\* options it was served with; and what one request put on cooldown is not
\* eligible for the next request for the same realm (short of a reset)
C20_IdentityIgnoresShuffle ==
    /\ \A key \in DOMAIN recentlyUsedQuestions :
          \A id \in Range(recentlyUsedQuestions[key]) : IsStoredIdentity(id)
    /\ (IsGet(prev) /\ IsGet(last) /\ prev.key = last.key
            /\ ~prev.pruned /\ ~last.reset)
          => Range(prev.tracked) \cap Range(last.eligible) = {}

\* a question was served with its correct answer relocated, its stored
\* identity is in the cooldown set, and the next request for the realm did
\* not consider it
C20_Witness ==
    /\ IsGet(prev) /\ IsGet(last) /\ prev.key = last.key /\ ~last.reset
    /\ \E id \in Range(prev.served) :
          /\ ServedRelocated(prev, id)
          /\ IsStoredIdentity(id)
          /\ id \in Range(MapGet(recentlyUsedQuestions, prev.key, << >>))
          /\ id \notin Range(last.eligible)

\* the step is a call of getRandomQuestions
IsGetStep == now' = now + 1 /\ IsGet(last')

\* the positions of ids that Set.add appends for: the first occurrence of
\* each entry that is not yet in set
AddedAt(set, ids) ==
    {i \in 1..Len(ids) :
        /\ \A k \in 1..Len(set) : set[k] # ids[i]
        /\ \A j \in 1..(i - 1) : ids[j] # ids[i]}

\* the n-th smallest element of a set of numbers
Nth(positions, n) ==
    CHOOSE i \in positions : Cardinality({j \in positions : j <= i}) = n

\* the entries of set followed by those of ids that are not yet in it
Inserted(set, ids) ==
    set \o [n \in 1..Cardinality(AddedAt(set, ids)) |-> ids[Nth(AddedAt(set, ids), n)]]

\* the realm's set of the step's call after the insertions of
\* trackRecentlyUsedQuestions, before any pruning
AfterInsertion ==
    Inserted(IF last'.reset THEN << >>
             ELSE MapGet(recentlyUsedQuestions, last'.key, << >>),
             last'.tracked)

\* the n most recently added entries of set
MostRecent(set, n) == SubSeq(set, Max(1, Len(set) - n + 1), Len(set))

\* the realm's set after a call, when more than threshold entries are cut
\* down to the keep most recent ones
PrunedTo(threshold, keep) ==
    MapGet(recentlyUsedQuestions', last'.key, << >>)
        = IF Len(AfterInsertion) > threshold
          THEN MostRecent(AfterInsertion, keep)
          ELSE AfterInsertion

\* C21 as stated: a set that exceeds cooldownPeriod x batchSize (60) entries
\* after the insertion is cut down to its cooldownPeriod x 3 x batchSize
\* (180) most recently added entries, in their order; otherwise nothing is
\* removed
C21_PruneAsStated ==
    [][IsGetStep =>
          PrunedTo(questionCooldownPeriod * PruneFactor,
                   questionCooldownPeriod * KeepFactor * PruneFactor)]_vars

\* C21 as amended: ... is cut down to its cooldownPeriod x 3 (30) most
\* recently added entries, in their order; otherwise nothing is removed
C21_PruneKeepsMostRecent ==
    [][IsGetStep =>
          PrunedTo(questionCooldownPeriod * PruneFactor,
                   questionCooldownPeriod * KeepFactor)]_vars

\* a call has pruned its realm's set
C21_Witness ==
    /\ IsGet(last) /\ last.pruned
    /\ Len(MapGet(recentlyUsedQuestions, last.key, << >>))
          = questionCooldownPeriod * KeepFactor

\* C22: after every call each cooldown set holds at most
\* questionCooldownPeriod * 6 (= 60) identities
C22_SetBounded ==
    \A key \in DOMAIN recentlyUsedQuestions :
        Len(recentlyUsedQuestions[key]) <= questionCooldownPeriod * PruneFactor

\* a set that had grown beyond the bound was cut down, and a set holds as
\* many identities as a prune leaves
C22_Witness ==
    /\ IsGet(last) /\ last.pruned
    /\ Len(last.tracked) > questionCooldownPeriod * PruneFactor
    /\ \E key \in DOMAIN recentlyUsedQuestions :
          Len(recentlyUsedQuestions[key]) >= questionCooldownPeriod * KeepFactor

\* C23: the tier stage of getBalancedQuestionMix picks at most
\* max(0, count - ceil(0.4*count) - ceil(0.4*count)) hard questions, none
\* for the counts 1 and 3 whose remainder is negative
C23_HardTargetClamped ==
    IsGet(last) => last.hardPicked <= Max(0, hardCount(last.count))

\* C24: when the tier stage yields fewer than count picks, the backfill adds
\* candidates of the filtered pool that are not picked yet until count is
\* reached or the pool is exhausted: the batch holds min(count, size of the
\* filtered pool) questions, all of the pool, the tier picks first
C24_Backfill ==
    (IsGet(last) /\ last.tierPicked < last.count) =>
        /\ Len(last.questions) = Min(last.count, Len(last.eligible))
        /\ Range(last.tracked) \subseteq Range(last.eligible)
        /\ last.picked = Len(last.questions)
        /\ last.picked >= last.tierPicked

\* the tiers were too scarce for the request, and the backfill has made the
\* batch complete
C24_Witness ==
    /\ IsGet(last) /\ last.tierPicked < last.count
    /\ last.picked > last.tierPicked
    /\ Len(last.questions) = last.count
    /\ Len(last.eligible) > last.count

\* the realms requests are made for
RequestRealms == {req[1] : req \in Requests(questionBank)}

\* the step leaves the cooldown set that requests for realm consult as it is
CooldownKept(realm) == CooldownOf(realm)' = CooldownOf(realm)

\* C25: a getRandomQuestions call for realm R changes the cooldown set of R
\* only: the set that requests for any other realm consult is unchanged,
\* also when R is an unknown realm served by the fallback
C25_PerRealm ==
    [][IsGetStep =>
          \A other \in RequestRealms :
              normalizeRealmName(other) # normalizeRealmName(last'.realm)
                  => CooldownKept(other)]_vars

\* h * 31 + char modulo 2^32, on the halves [hi, lo] of h
Times31Plus(h, char) ==
    [hi |-> (31 * h.hi + (31 * h.lo + char) \div 65536) % 65536,
     lo |-> (31 * h.lo + char) % 65536]

\* the rolling hash of the first n characters of str, modulo 2^32
RECURSIVE RollingHash(_, _)
RollingHash(str, n) ==
    IF n = 0 THEN [hi |-> 0, lo |-> 0]
    ELSE Times31Plus(RollingHash(str, n - 1), CharCode(str[n]))

\* the absolute value of the signed 32-bit integer with the halves of h
AbsOfSigned(h) ==
    IF h.hi < 32768 THEN h
    ELSE IF h.lo = 0 THEN [hi |-> 65536 - h.hi, lo |-> 0]
    ELSE [hi |-> 65535 - h.hi, lo |-> 65536 - h.lo]

IsHashed == probe.fn = "hashCode"

\* C26 as stated: hashCode returns the absolute value of the rolling hash
\* h*31 + charCode wrapped to the signed 32-bit range, and the result is a
\* non-negative integer that fits the signed 32-bit range
C26_HashInInt32 ==
    IsHashed =>
        /\ probe.result = AbsOfSigned(RollingHash(probe.str, Len(probe.str)))
        /\ probe.result.hi \in 0..32767 /\ probe.result.lo \in 0..65535

\* C26 as amended: ... and the result is a non-negative integer of at most
\* 2^31
C26_HashAtMost2To31 ==
    IsHashed =>
        /\ probe.result = AbsOfSigned(RollingHash(probe.str, Len(probe.str)))
        /\ probe.result.hi \in 0..32768 /\ probe.result.lo \in 0..65535
        /\ probe.result.hi = 32768 => probe.result.lo = 0

\* the hash of a session identifier has wrapped to a negative integer
C26_Witness ==
    /\ IsHashed
    /\ RollingHash(probe.str, Len(probe.str)).hi >= 32768
    /\ probe.result # RollingHash(probe.str, Len(probe.str))
    /\ probe.result.hi < 32768

\* the watched identity is in the cooldown set of the repeated requests
WatchedOnCooldown ==
    /\ probe.fn = "repeat" /\ IsGet(last)
    /\ probe.watched \in Range(MapGet(recentlyUsedQuestions, last.key, << >>))

\* the watched identity has left the cooldown set (a prune has dropped it),
\* or the last call has found identities on cooldown, has reset the set and
\* has had the watched identity among its eligible candidates
WatchedFreed ==
    \/ ~WatchedOnCooldown
    \/ /\ last.reset /\ last.cooled > 0
       /\ probe.watched \in Range(last.eligible)

\* C27: under repeated getRandomQuestions(R, n) calls with n >= 1, an
\* identity in R's cooldown set does not stay there for ever: a later call
\* resets the set and has the identity among its eligible candidates, or a
\* prune drops it
C27_CooldownIsTemporary ==
    []<>WatchedFreed

\* the watched identity was put on cooldown by one call and was eligible for
\* the next, which reset the cooldown
C27_Witness ==
    /\ probe.fn = "repeat" /\ IsGet(prev) /\ IsGet(last)
    /\ probe.watched \in Range(prev.tracked)
    /\ probe.watched \notin Range(prev.eligible) \/ ~prev.reset
    /\ last.reset /\ last.cooled > 0
    /\ probe.watched \in Range(last.eligible)

\* the player record the store holds for a player (zeros when it holds none)
StoredPlayer(player) == MapGet(redis.players, player, NewPlayer(player))

\* what the requests 1..p of a player that were answered 200 submitted
RECURSIVE Submitted(_, _)
Submitted(p, player) ==
    IF p = 0 THEN [score |-> 0, totalQuestions |-> 0]
    ELSE IF inflight[p].status = 200 /\ inflight[p].game.player = player
         THEN [score |-> Submitted(p - 1, player).score + inflight[p].game.score,
               totalQuestions |-> Submitted(p - 1, player).totalQuestions
                                      + inflight[p].game.totalQuestions]
         ELSE Submitted(p - 1, player)

\* every request that arrived has been answered 200
AllCompleted ==
    /\ \E p \in 1..MaxInFlight : inflight[p].pc = "done"
    /\ \A p \in 1..MaxInFlight :
          /\ inflight[p].pc \in {"idle", "done"}
          /\ inflight[p].pc = "done" => inflight[p].status = 200

\* C28: once a set of /api/game-complete requests has completed, whether or
\* not their redis commands interleaved, the stored score of each player is
\* the sum of the scores submitted for that player, and the stored
\* questionsAnswered the sum of the totalQuestions submitted.
C28_StatisticsNotLost ==
    AllCompleted =>
        \A player \in Players :
            /\ StoredPlayer(player).score = Submitted(MaxInFlight, player).score
            /\ StoredPlayer(player).questionsAnswered
                   = Submitted(MaxInFlight, player).totalQuestions

\* a leaderboard in descending order of score, of at most 50 entries, with at
\* most one entry for a username
IsRanking(leaderboard) ==
    /\ Len(leaderboard) <= LeaderboardSize
    /\ \A i \in 1..(Len(leaderboard) - 1) :
          leaderboard[i].score >= leaderboard[i + 1].score
    /\ \A i, j \in 1..Len(leaderboard) :
          leaderboard[i].username = leaderboard[j].username => i = j

\* the 1-based position of a player in a leaderboard, 0 for none
PositionOf(leaderboard, player) ==
    Cardinality({i \in 1..Len(leaderboard) :
                    \E j \in i..Len(leaderboard) : leaderboard[j].username = player})

\* request p is answered 200 in this step
Completes(p) == inflight[p].pc = "respond" /\ inflight'[p].pc = "done"

\* C30: after every completed /api/game-complete request the stored realm
\* leaderboard is sorted by score in descending order, holds at most 50
\* entries and at most one entry for a username, and the newRank of the
\* response is the position of the submitting player in the stored
\* leaderboard (1-based), or undefined (0) when the player has no entry in it.
C30_RankInStoredLeaderboard ==
    [][\A p \in 1..MaxInFlight :
          Completes(p) =>
              /\ IsRanking(redis'.board)
              /\ inflight'[p].newRank
                     = PositionOf(redis'.board, inflight[p].game.player)]_vars

\* handler p tops its questions up in this step: the last call of the step is
\* the getRandomQuestions('general', 6 - k, sessionId) of line 146
TopsUp(p) ==
    /\ Selects(p)
    /\ inflight'[p].calls > 0
    /\ last'.realm = S_general
    /\ last'.sessionId = S_a2

\* handler p sends its response with status 200 in this step
Succeeds(p) ==
    /\ inflight[p].pc = "awaitStats"
    /\ inflight'[p].pc = "done"
    /\ inflight'[p].status = 200

\* C29: whenever the /api/init handler succeeds, its response holds at least
\* 6 questions: when the AI generator or the database fallback yielded k < 6,
\* the call getRandomQuestions('general', 6 - k) returns the 6 - k missing
\* questions, whatever the cooldown sets hold when it is made.
C29_AtLeastSixQuestions ==
    [][\A p \in 1..MaxInFlight :
          /\ TopsUp(p) =>
                /\ last'.count \in 1..6
                /\ Len(last'.questions) = last'.count
                /\ inflight'[p].count = 6
          /\ Selects(p) => inflight'[p].count >= 6
          /\ Succeeds(p) => inflight[p].count >= 6]_vars

\* a request that was topped up with three 'general' questions while some of
\* the general questions were on cooldown, and is about to be answered
C29_Witness ==
    \E p \in 1..MaxInFlight :
        /\ inflight[p].pc = "awaitStats"
        /\ inflight[p].calls = 1
        /\ inflight[p].count = 6
        /\ IsGet(last) /\ last.realm = S_general /\ last.sessionId = S_a2
        /\ last.count = 3
        /\ last.cooled > 0
        /\ ~last.reset

====
